---- MODULE Spec2Model ----
(***************************************************************************)
(* Hill shading (titusjan/hill_shading): the intensity computation of      *)
(* intensity.py, the colouring and blending pipeline of hillshade.py, and  *)
(* the normalized hillshades of novitsky.py and pepshade.py.               *)
(*                                                                         *)
(* Numbers.  A numpy float is modelled as an extended rational <<n, d>>:   *)
(* d > 0 and gcd(n, d) = 1 for a finite value n/d, <<0,0>> for NaN,        *)
(* <<1,0>> for +inf and <<-1,0>> for -inf.  Arithmetic is exact (no        *)
(* rounding) and follows IEEE 754 for the special values; the sign of a    *)
(* zero is not kept.  Square roots are exact: the terrains and angles of   *)
(* the model are those whose normals and light vectors have rational       *)
(* lengths.                                                                *)
(*                                                                         *)
(* Arrays.  A 2D array is a sequence of rows, each a sequence of numbers;  *)
(* an (rows, cols, k) array is a sequence of rows of pixels, each pixel a  *)
(* sequence of k numbers.                                                  *)
(*                                                                         *)
(* Calls.  The functions are pure apart from the Normalize object a caller *)
(* may share between calls.  A behaviour is one call: the initial state    *)
(* holds the function and its arguments, the action is the whole call and  *)
(* leaves what it returned or raised in result.  StepSpec follows one      *)
(* hill_shade call statement by statement.                                 *)
(***************************************************************************)
EXTENDS Integers, Sequences, FiniteSets

VARIABLES
    pc,      \* "ready": the call is about to be made; "done": it has ended
    op,      \* the function called
    args,    \* its arguments, by parameter name
    result,  \* what it returned (Ok) or raised (Raise), once pc = "done"
    norm,    \* the Normalize object the caller keeps between calls
    frame    \* the local variables of a call that is followed step by step

vars == <<pc, op, args, result, norm, frame>>

-----------------------------------------------------------------------------
(* Extended rational arithmetic (numpy float64, exact).                    *)

Abs(i) == IF i < 0 THEN -i ELSE i

Sgn(i) == IF i < 0 THEN -1 ELSE IF i > 0 THEN 1 ELSE 0

RECURSIVE GCD(_, _)
GCD(a, b) == IF b = 0 THEN a ELSE GCD(b, a % b)

\* The finite value n/d in lowest terms (d # 0).
Q(n, d) ==
    LET g == GCD(Abs(n), Abs(d))
    IN  <<Sgn(d) * (n \div g), Abs(d) \div g>>

I(n) == <<n, 1>>

NaN == <<0, 0>>
PInf == <<1, 0>>
NInf == <<-1, 0>>
Zero == <<0, 1>>
One == <<1, 1>>

IsNaN(x) == x = NaN
IsFinite(x) == x[2] # 0
IsInf(x) == x[2] = 0 /\ x[1] # 0

Neg(x) == <<-x[1], x[2]>>

Add(x, y) ==
    IF IsNaN(x) \/ IsNaN(y) THEN NaN
    ELSE IF IsInf(x) THEN (IF IsInf(y) /\ y # x THEN NaN ELSE x)
    ELSE IF IsInf(y) THEN y
    ELSE Q(x[1] * y[2] + y[1] * x[2], x[2] * y[2])

Sub(x, y) == Add(x, Neg(y))

Mul(x, y) ==
    IF IsNaN(x) \/ IsNaN(y) THEN NaN
    ELSE IF IsInf(x) \/ IsInf(y)
         THEN (IF x[1] = 0 \/ y[1] = 0 THEN NaN
               ELSE <<Sgn(x[1]) * Sgn(y[1]), 0>>)
    ELSE Q(x[1] * y[1], x[2] * y[2])

\* numpy true division: x/0 is nan or +-inf (a RuntimeWarning, no exception).
Div(x, y) ==
    IF IsNaN(x) \/ IsNaN(y) THEN NaN
    ELSE IF IsInf(y) THEN (IF IsInf(x) THEN NaN ELSE Zero)
    ELSE IF y[1] = 0 THEN (IF x[1] = 0 THEN NaN ELSE <<Sgn(x[1]), 0>>)
    ELSE IF IsInf(x) THEN <<Sgn(x[1]) * Sgn(y[1]), 0>>
    ELSE Q(x[1] * y[2], x[2] * y[1])

\* Comparisons: every comparison with NaN is False.
Lt(x, y) ==
    /\ ~IsNaN(x)
    /\ ~IsNaN(y)
    /\ x # y
    /\ IF IsInf(x) THEN x = NInf
       ELSE IF IsInf(y) THEN y = PInf
       ELSE x[1] * y[2] < y[1] * x[2]

Le(x, y) == ~IsNaN(x) /\ ~IsNaN(y) /\ (x = y \/ Lt(x, y))

Ge(x, y) == Le(y, x)

\* The exact root of a perfect square.
ISqrt(n) == CHOOSE k \in 0..n : k * k = n

\* np.sqrt: nan for a negative argument.
Sqrt(x) ==
    IF IsNaN(x) \/ x = NInf THEN NaN
    ELSE IF x = PInf THEN PInf
    ELSE IF x[1] < 0 THEN NaN
    ELSE <<ISqrt(x[1]), ISqrt(x[2])>>

RECURSIVE SumSeq(_)
SumSeq(s) == IF s = <<>> THEN Zero ELSE Add(s[1], SumSeq(Tail(s)))

-----------------------------------------------------------------------------
(* Arrays.                                                                 *)

NRows(a) == Len(a)
NCols(a) == IF Len(a) = 0 THEN 0 ELSE Len(a[1])
Shape(a) == <<NRows(a), NCols(a)>>

ones_like(a) == [r \in 1..NRows(a) |-> [c \in 1..NCols(a) |-> One]]

Cells(a) == {a[r][c] : r \in 1..NRows(a), c \in 1..NCols(a)}

\* np.all(a >= lo), np.all(a <= hi): False as soon as one cell is NaN.
AllGe(a, lo) == \A x \in Cells(a) : Ge(x, lo)
AllLe(a, hi) == \A x \in Cells(a) : Le(x, hi)

\* np.clip(x, lo, hi) of one cell: NaN stays NaN.
Clip(x, lo, hi) ==
    IF IsNaN(x) THEN NaN
    ELSE IF Lt(x, lo) THEN lo
    ELSE IF Lt(hi, x) THEN hi
    ELSE x

-----------------------------------------------------------------------------
(* What a call returned or raised.                                         *)

Ok(v) == [ok |-> TRUE, val |-> v]
Raise(e) == [ok |-> FALSE, err |-> e]

-----------------------------------------------------------------------------
(* intensity.py: normals, light vector, relative intensity.                *)

DO_SANITY_CHECKS == TRUE

\* The angles of the model, in degrees.  "36.87" stands for the angle whose
\* sine is 3/5 and "53.13" for the one whose sine is 4/5: np.sin and np.cos
\* of every angle of the model are rational.
Angles == {"0", "90", "180", "270", "-90", "36.87", "53.13"}

\* np.sin(angle * np.pi / 180.0)
Sin(a) ==
    CASE a = "0" -> Zero
      [] a = "90" -> One
      [] a = "180" -> Zero
      [] a = "270" -> I(-1)
      [] a = "-90" -> I(-1)
      [] a = "36.87" -> Q(3, 5)
      [] a = "53.13" -> Q(4, 5)

\* np.cos(angle * np.pi / 180.0)
Cos(a) ==
    CASE a = "0" -> One
      [] a = "90" -> Zero
      [] a = "180" -> I(-1)
      [] a = "270" -> Zero
      [] a = "-90" -> Zero
      [] a = "36.87" -> Q(4, 5)
      [] a = "53.13" -> Q(3, 5)

\* np.gradient along one axis of length n >= 2 (unit spacing, edge_order 1):
\* one-sided differences at the two ends, central differences inside.
Gradient1(h, i) ==
    LET n == Len(h)
    IN  IF i = 1 THEN Sub(h[2], h[1])
        ELSE IF i = n THEN Sub(h[n], h[n - 1])
        ELSE Div(Sub(h[i + 1], h[i - 1]), I(2))

\* np.gradient raises ValueError on an axis shorter than 2.
GradientDefined(terrain) == NRows(terrain) >= 2 /\ NCols(terrain) >= 2

Column(a, c) == [r \in 1..NRows(a) |-> a[r][c]]

\* dr, dc = np.gradient(terrain)
GradientRows(terrain) ==
    [r \in 1..NRows(terrain) |->
        [c \in 1..NCols(terrain) |-> Gradient1(Column(terrain, c), r)]]

GradientCols(terrain) ==
    [r \in 1..NRows(terrain) |->
        [c \in 1..NCols(terrain) |-> Gradient1(terrain[r], c)]]

\* A slip: the cross product taken in the other order, vc x vr.
Cross_reversed(u, v) ==
    << Sub(Mul(v[2], u[3]), Mul(v[3], u[2])),
       Sub(Mul(v[3], u[1]), Mul(v[1], u[3])),
       Sub(Mul(v[1], u[2]), Mul(v[2], u[1])) >>

\* np.cross of two 3-vectors
Cross(u, v) ==
    << Sub(Mul(u[2], v[3]), Mul(u[3], v[2])),
       Sub(Mul(u[3], v[1]), Mul(u[1], v[3])),
       Sub(Mul(u[1], v[2]), Mul(u[2], v[1])) >>

\* np.dot of two 3-vectors
Dot(u, v) == Add(Add(Mul(u[1], v[1]), Mul(u[2], v[2])), Mul(u[3], v[3]))

\* A slip: the squared magnitude, the square root forgotten.
VecNorm_squared(u) == Dot(u, u)

\* np.linalg.norm of a 3-vector
VecNorm(u) == Sqrt(Dot(u, u))

\* The un-normalized normals: the cross product of vr = (dr, 1, 0) and
\* vc = (dc, 0, 1) at every pixel.
surface_normals(terrain) ==
    LET Normals(dr, dc) ==
            [r \in 1..NRows(terrain) |->
                [c \in 1..NCols(terrain) |->
                    Cross(<<dr[r][c], One, Zero>>, <<dc[r][c], Zero, One>>)]]
    IN  Normals(GradientRows(terrain), GradientCols(terrain))

\* A slip: the normals are returned as the cross product gives them.
surface_unit_normals_unscaled(terrain) == surface_normals(terrain)

\* Every normal divided by its np.linalg.norm.
surface_unit_normals(terrain) ==
    LET Scaled(v, m) == <<Div(v[1], m), Div(v[2], m), Div(v[3], m)>>
        Units(sn) ==
            [r \in 1..NRows(terrain) |->
                [c \in 1..NCols(terrain) |->
                    Scaled(sn[r][c], VecNorm(sn[r][c]))]]
    IN  Units(surface_normals(terrain))

\* A slip: the components in (col, row, height) order.
polar_to_cart3d_xyz(azimuth, elevation) ==
    << Mul(Cos(elevation), Cos(azimuth)),
       Mul(Cos(elevation), Sin(azimuth)),
       Sin(elevation) >>

\* (height, row, col) of the light direction
polar_to_cart3d(azimuth, elevation) ==
    << Sin(elevation),
       Mul(Cos(elevation), Sin(azimuth)),
       Mul(Cos(elevation), Cos(azimuth)) >>

\* np.testing.assert_approx_equal(x, 1.0): equal to 7 significant digits.
ApproxOne(x) ==
    LET d == Sub(x, One)
        tol == Q(1, 1000000)
    IN  Lt(d, tol) /\ Lt(Neg(tol), d)

\* np.dot(normals, light): cos(theta) at every pixel, before the checks and
\* the clipping
cos_theta(normals, light) ==
    [r \in 1..NRows(normals) |->
        [c \in 1..NCols(normals) |-> Dot(normals[r][c], light)]]

\* A slip: no clipping, a surface turned away from the lamp gets a negative
\* intensity.
ClipUnit_none(x) == x

\* A slip: the absolute value of a negative cosine instead of 0.
ClipUnit_abs(x) == Clip(IF Lt(x, Zero) THEN Neg(x) ELSE x, Zero, One)

\* np.clip(intensity, 0.0, 1.0) of one pixel
ClipUnit(x) == Clip(x, Zero, One)

relative_surface_intensity(terrain, azimuth, elevation) ==
    IF ~GradientDefined(terrain) THEN Raise("ValueError: gradient")
    ELSE
    LET Checked(light, intensity) ==
            IF DO_SANITY_CHECKS /\ ~ApproxOne(VecNorm(light))
            THEN Raise("AssertionError: light vector should have length 1")
            ELSE IF DO_SANITY_CHECKS /\ ~AllGe(intensity, I(-1))
            THEN Raise("AssertionError: cos(theta) should be >= -1")
            ELSE IF DO_SANITY_CHECKS /\ ~AllLe(intensity, One)
            THEN Raise("AssertionError: cos(theta) should be <= 1")
            ELSE Ok([r \in 1..NRows(intensity) |->
                        [c \in 1..NCols(intensity) |->
                            ClipUnit(intensity[r][c])]])
        Lit(light, normals) == Checked(light, cos_theta(normals, light))
    IN  Lit(polar_to_cart3d(azimuth, elevation), surface_unit_normals(terrain))

-----------------------------------------------------------------------------
(* Arguments that are a scalar or a list, and the lamp lists.              *)

None == <<>>

Scalar(x) == [kind |-> "scalar", x |-> x]
List(s) == [kind |-> "list", xs |-> s]
\* An argument the caller leaves out: the function's default is bound.
Omitted == [kind |-> "omitted"]

Bind(arg, default) == IF arg.kind = "omitted" THEN Scalar(default) ELSE arg

\* list(var) of an iterable, [var] of a scalar
enforce_list(var) == IF var.kind = "list" THEN var.xs ELSE <<var.x>>

\* s * n of a Python list
RECURSIVE Repeat(_, _)
Repeat(s, n) == IF n = 0 THEN <<>> ELSE s \o Repeat(s, n - 1)

\* A slip: the check is left out and zip drops the lamps that have no partner.
same_length_unchecked(s0, s1) == TRUE

\* assert_same_length(s0, s1, label0, label1) passes
same_length(s0, s1) == Len(s0) = Len(s1)

SizeMismatch(label0, label1) ==
    Raise("AssertionError: size mismatch between " \o label0 \o " and " \o label1)

\* The loop over zip(azimuths, elevations, lamp_weights): what
\* relative_surface_intensity returns or raises for each lamp, in list order.
lamp_intensities(terrain, azimuths, elevations) ==
    [i \in 1..Len(azimuths) |->
        relative_surface_intensity(terrain, azimuths[i], elevations[i])]

\* The first lamp whose intensity computation raises, 0 if none does.
FirstRaise(rs) ==
    IF \A i \in DOMAIN rs : rs[i].ok THEN 0
    ELSE CHOOSE i \in DOMAIN rs :
            ~rs[i].ok /\ \A j \in DOMAIN rs : j < i => rs[j].ok

\* A slip: a weight of 0 is taken as not given and counted as 1.
unit_weights_or_one(weights) ==
    LET Given(w) == [i \in DOMAIN w |-> Div(w[i], SumSeq(w))]
    IN  Given([i \in DOMAIN weights |->
                IF weights[i] = Zero THEN One ELSE weights[i]])

\* weights / np.sum(weights)
unit_weights(weights) ==
    LET total == SumSeq(weights)
    IN  [i \in DOMAIN weights |-> Div(weights[i], total)]

\* A slip: the weights are not passed, np.average is the plain mean.
np_average_unweighted(layers, w) ==
    LET shape == layers[1]
    IN  Ok([r \in 1..NRows(shape) |->
              [c \in 1..NCols(shape) |->
                  Div(SumSeq([i \in DOMAIN layers |-> layers[i][r][c]]),
                      I(Len(layers)))]])

\* np.average(layers, axis=2, weights=w): raises ZeroDivisionError when the
\* weights sum to exactly 0.0, else sum(layer * w) / sum(w) at every pixel.
np_average(layers, w) ==
    LET scl == SumSeq(w)
        shape == layers[1]
    IN  IF scl = Zero THEN Raise("ZeroDivisionError: Weights sum to zero")
        ELSE Ok([r \in 1..NRows(shape) |->
                    [c \in 1..NCols(shape) |->
                        Div(SumSeq([i \in DOMAIN w |-> Mul(layers[i][r][c], w[i])]),
                            scl)]])

Min2(a, b) == IF a < b THEN a ELSE b

\* The number of triples zip(azimuths, elevations, lamp_weights) yields: the
\* length of the shortest list.
zip_length(azimuths, elevations, lamp_weights) ==
    Min2(Len(azimuths), Min2(Len(elevations), Len(lamp_weights)))

\* Lines 62-76 of weighted_intensity and 226-237 of hill_shade: the ambient
\* layer of ones and one layer per zipped lamp, averaged with the unit weights.
surface_intensity(terrain, azimuths, elevations, ambient_weight, lamp_weights) ==
    LET Averaged(rs, bad, weights) ==
            IF bad # 0 THEN rs[bad]
            ELSE np_average(<<ones_like(terrain)>>
                                \o [i \in DOMAIN rs |-> rs[i].val],
                            unit_weights(weights))
        Lamps(rs, weights) == Averaged(rs, FirstRaise(rs), weights)
        Zipped(n) ==
            Lamps(lamp_intensities(terrain, SubSeq(azimuths, 1, n),
                                   SubSeq(elevations, 1, n)),
                  <<ambient_weight>> \o SubSeq(lamp_weights, 1, n))
    IN  Zipped(zip_length(azimuths, elevations, lamp_weights))

DEF_LAMP_WEIGHT == 5

weighted_intensity(terrain, azimuth, elevation, ambient_weight, lamp_weight) ==
    LET azimuths == enforce_list(azimuth)
        elevations == enforce_list(elevation)
        lw == enforce_list(Bind(lamp_weight, I(DEF_LAMP_WEIGHT)))
        lamp_weights == IF Len(lw) = 1 THEN Repeat(lw, Len(azimuths)) ELSE lw
    IN  IF ~same_length(azimuths, elevations)
        THEN SizeMismatch("azimuths", "elevations")
        ELSE IF ~same_length(azimuths, lamp_weights)
        THEN SizeMismatch("azimuths", "lamp_weights")
        ELSE surface_intensity(terrain, azimuths, elevations,
                               ambient_weight, lamp_weights)

-----------------------------------------------------------------------------
(* hillshade.py: buffers and replace_nans.  An array lives in a buffer: the *)
(* caller's array it is (or is a view of), named by the parameter, or a     *)
(* buffer the call allocated.  An assignment into an array writes into its  *)
(* buffer.                                                                  *)

Fresh == "fresh"

\* A slip: np.asarray(array), which allocates nothing for an array.
np_copy_shared(buffer) == buffer

\* np.copy(array): the values in a newly allocated buffer
np_copy(buffer) == Fresh

\* is_non_finite_mask(array): the mask is computed and dropped; a function
\* without a return statement returns None.
is_non_finite_mask(array) == None

\* np.any(mask): None is not true.
np_any(mask) ==
    /\ mask # None
    /\ \E r \in 1..NRows(mask), c \in 1..NCols(mask) : mask[r][c]

\* a[mask] = value: the array after the assignment
masked_assign(a, mask, value) ==
    [r \in 1..NRows(a) |->
        [c \in 1..NCols(a) |-> IF mask[r][c] THEN value ELSE a[r][c]]]

\* replace_nans(array, array_nan_value, mask): [res |-> what the call
\* returns, array |-> the caller's array after the call].
replace_nans(array, array_nan_value, mask0) ==
    LET Written(buffer, finite_array) ==
            [res |-> Ok(finite_array),
             array |-> IF buffer = "array" THEN finite_array ELSE array]
        Replaced(buffer, mask) ==
            Written(buffer,
                    IF np_any(mask)
                    THEN masked_assign(array, mask, array_nan_value)
                    ELSE array)
    IN  Replaced(np_copy("array"),
                 IF mask0 = None THEN is_non_finite_mask(array) ELSE mask0)

-----------------------------------------------------------------------------
(* hillshade.py: colouring.                                                *)

\* Python's ==, <: False whenever an operand is NaN.
Eq(x, y) == ~IsNaN(x) /\ x = y

\* A.min(), A.max() of a non-empty array: NaN as soon as one cell is NaN.
ArrMin(a) ==
    IF NaN \in Cells(a) THEN NaN
    ELSE CHOOSE x \in Cells(a) : \A y \in Cells(a) : Le(x, y)

ArrMax(a) ==
    IF NaN \in Cells(a) THEN NaN
    ELSE CHOOSE x \in Cells(a) : \A y \in Cells(a) : Le(y, x)

\* mpl.colors.Normalize(vmin, vmax): the object's two fields, None while
\* the object is not scaled.
Normalize(vmin, vmax) == [kind |-> "Normalize", vmin |-> vmin, vmax |-> vmax]

\* norm=None: the caller passes no Normalize object.
NoNorm == [kind |-> "None"]

\* Normalize.autoscale_None(A): a field that is None is set from the data
\* and stays set in the object.
autoscale_None(nrm, A) ==
    Normalize(IF nrm.vmin = None THEN ArrMin(A) ELSE nrm.vmin,
              IF nrm.vmax = None THEN ArrMax(A) ELSE nrm.vmax)

\* Normalize.__call__(values): [res |-> what the call returns or raises,
\* norm |-> the object after the call].  The values are scaled in a copy.
Normalize_call(nrm, values) ==
    LET Scale(x, vmin, vmax) == Div(Sub(x, vmin), Sub(vmax, vmin))
        Call(scaled) ==
            [norm |-> scaled,
             res |-> IF Eq(scaled.vmin, scaled.vmax)
                     THEN Ok([r \in 1..NRows(values) |->
                                [c \in 1..NCols(values) |-> Zero]])
                     ELSE IF Lt(scaled.vmax, scaled.vmin)
                     THEN Raise("ValueError: minvalue must be less than or equal to maxvalue")
                     ELSE Ok([r \in 1..NRows(values) |->
                                [c \in 1..NCols(values) |->
                                    Scale(values[r][c], scaled.vmin, scaled.vmax)]])]
    IN  Call(autoscale_None(nrm, values))

\* normalize(values, vmin, vmax, norm): a fresh Normalize object when norm
\* is None, else the caller's object (vmin and vmax are then ignored).
normalize(values, vmin, vmax, nrm) ==
    IF nrm = NoNorm THEN Normalize_call(Normalize(vmin, vmax), values)
    ELSE Normalize_call(nrm, values)

\* A colour map: a lookup table of N RGBA colours and the colours of values
\* below 0, above 1 and not a number.  The table stands for gist_earth,
\* which runs from black to white; it is cut to four entries.
DEF_CMAP ==
    [lut |-> << <<Zero, Zero, Zero, One>>,
                <<Q(1, 4), Q(1, 2), Q(1, 2), One>>,
                <<Q(3, 4), Q(3, 4), Q(1, 2), One>>,
                <<One, One, One, One>> >>,
     under |-> <<Zero, Zero, Zero, One>>,
     over |-> <<One, One, One, One>>,
     bad |-> <<Zero, Zero, Zero, Zero>>]

\* Colormap.__call__ on one normalized value
cmap_color(cmap, x) ==
    LET Lookup(N, xa) ==
            IF IsNaN(x) THEN cmap.bad
            ELSE IF Lt(xa, Zero) THEN cmap.under
            ELSE IF xa = I(N) THEN cmap.lut[N]
            ELSE IF Lt(I(N), xa) THEN cmap.over
            ELSE cmap.lut[(xa[1] \div xa[2]) + 1]
    IN  Lookup(Len(cmap.lut), Mul(x, I(Len(cmap.lut))))

\* color_data(data, cmap, vmin, vmax, norm): [res |-> the rgba array or the
\* error raised, norm |-> the Normalize object after the call].
color_data(data, cmap, vmin, vmax, nrm) ==
    LET Coloured(n) ==
            [norm |-> n.norm,
             res |-> IF ~n.res.ok THEN n.res
                     ELSE Ok([r \in 1..NRows(data) |->
                                [c \in 1..NCols(data) |->
                                    cmap_color(cmap, n.res.val[r][c])]])]
    IN  Coloured(normalize(data, vmin, vmax, nrm))

-----------------------------------------------------------------------------
(* hillshade.py: blending.                                                 *)

\* numpy broadcasting of two axes: the lengths agree or one of them is 1.
Broadcastable(n, m) == n = m \/ n = 1 \/ m = 1
Max2(a, b) == IF a < b THEN b ELSE a
\* The index into an axis of length n of element i of the broadcast result.
BIndex(n, i) == IF n = 1 THEN 1 ELSE i

\* A slip: the colours are returned as they are, the intensities unused.
rgb_blending_unshaded(rgba, norm_intensities) ==
    Ok([r \in 1..NRows(rgba) |->
          [c \in 1..NCols(rgba) |-> SubSeq(rgba[r][c], 1, 3)]])

\* A slip: rgba is not cut to its RGB channels, the alpha channel is blended
\* like a colour.
rgb_blending_all_channels(rgba, norm_intensities) ==
    IF ~(Broadcastable(NRows(rgba), NRows(norm_intensities))
            /\ Broadcastable(NCols(rgba), NCols(norm_intensities)))
    THEN Raise("ValueError: operands could not be broadcast together")
    ELSE Ok([r \in 1..Max2(NRows(rgba), NRows(norm_intensities)) |->
               [c \in 1..Max2(NCols(rgba), NCols(norm_intensities)) |->
                   [k \in 1..Len(rgba[1][1]) |->
                       Mul(rgba[BIndex(NRows(rgba), r)][BIndex(NCols(rgba), c)][k],
                           norm_intensities[BIndex(NRows(norm_intensities), r)]
                                           [BIndex(NCols(norm_intensities), c)])]]])

\* rgba[:, :, :3] * np.expand_dims(norm_intensities, axis=2)
rgb_blending(rgba, norm_intensities) ==
    IF ~(Broadcastable(NRows(rgba), NRows(norm_intensities))
            /\ Broadcastable(NCols(rgba), NCols(norm_intensities)))
    THEN Raise("ValueError: operands could not be broadcast together")
    ELSE Ok([r \in 1..Max2(NRows(rgba), NRows(norm_intensities)) |->
               [c \in 1..Max2(NCols(rgba), NCols(norm_intensities)) |->
                   [k \in 1..3 |->
                       Mul(rgba[BIndex(NRows(rgba), r)][BIndex(NCols(rgba), c)][k],
                           norm_intensities[BIndex(NRows(norm_intensities), r)]
                                           [BIndex(NCols(norm_intensities), c)])]]])

\* arr.max(-1), arr.min(-1) of one pixel: NaN as soon as one channel is NaN.
Max3(x) ==
    IF \E k \in 1..3 : IsNaN(x[k]) THEN NaN
    ELSE CHOOSE m \in {x[1], x[2], x[3]} : \A k \in 1..3 : Le(x[k], m)

Min3(x) ==
    IF \E k \in 1..3 : IsNaN(x[k]) THEN NaN
    ELSE CHOOSE m \in {x[1], x[2], x[3]} : \A k \in 1..3 : Le(m, x[k])

\* x % 1.0 of a finite x: the fractional part, in [0, 1).
Mod1(x) == IF IsFinite(x) THEN Q(x[1] % x[2], x[2]) ELSE NaN

\* matplotlib.colors.rgb_to_hsv of one pixel.  The hue is written for the
\* red, then the green, then the blue channel being the largest: the last
\* one written stays.
rgb_to_hsv(x) ==
    LET Sector(mx, delta) ==
            IF ~Lt(Zero, delta) THEN Zero
            ELSE IF x[3] = mx THEN Add(I(4), Div(Sub(x[1], x[2]), delta))
            ELSE IF x[2] = mx THEN Add(I(2), Div(Sub(x[3], x[1]), delta))
            ELSE Div(Sub(x[2], x[3]), delta)
        Hsv(mx, delta) ==
            << Mod1(Div(Sector(mx, delta), I(6))),
               IF Lt(Zero, mx) THEN Div(delta, mx) ELSE Zero,
               mx >>
        Ptp(mx, mn) == Hsv(mx, Sub(mx, mn))
    IN  Ptp(Max3(x), Min3(x))

\* matplotlib.colors.hsv_to_rgb of one pixel with a finite hue in [0, 1].
hsv_to_rgb(hsv) ==
    LET Pick(v, s, i, f) ==
            LET p == Mul(v, Sub(One, s))
                q == Mul(v, Sub(One, Mul(s, f)))
                t == Mul(v, Sub(One, Mul(s, Sub(One, f))))
            IN  IF s = Zero THEN <<v, v, v>>
                ELSE CASE i % 6 = 0 -> <<v, t, p>>
                       [] i = 1 -> <<q, v, p>>
                       [] i = 2 -> <<p, v, t>>
                       [] i = 3 -> <<p, q, v>>
                       [] i = 4 -> <<t, p, v>>
                       [] i = 5 -> <<v, p, q>>
        Split(v, s, h6) ==
            Pick(v, s, h6[1] \div h6[2], Sub(h6, I(h6[1] \div h6[2])))
    IN  Split(hsv[3], hsv[2], Mul(hsv[1], I(6)))

\* A slip: the Value of the colour is scaled by the intensity, not replaced.
hsv_blending_scaled(rgba, norm_intensities) ==
    LET Valued(hsv, v) == <<hsv[1], hsv[2], Mul(hsv[3], v)>>
    IN  IF ~(NRows(norm_intensities) \in {1, NRows(rgba)}
                /\ NCols(norm_intensities) \in {1, NCols(rgba)})
        THEN Raise("ValueError: could not broadcast input array")
        ELSE Ok([r \in 1..NRows(rgba) |->
                   [c \in 1..NCols(rgba) |->
                       hsv_to_rgb(Valued(rgb_to_hsv(SubSeq(rgba[r][c], 1, 3)),
                                         norm_intensities[BIndex(NRows(norm_intensities), r)]
                                                         [BIndex(NCols(norm_intensities), c)]))]])

\* out = np.zeros_like(arr) in rgb_to_hsv: the result lives in a newly
\* allocated buffer, not in the buffer of its argument.
rgb_to_hsv_buffer(buffer) == Fresh

\* The caller's rgba after hsv_blending: hsv[:, :, 2] = norm_intensities
\* writes into the buffer of hsv, rgb being a view of rgba.
hsv_blending_rgba(rgba, norm_intensities) ==
    IF rgb_to_hsv_buffer("rgba") = "rgba"
        /\ NRows(norm_intensities) \in {1, NRows(rgba)}
        /\ NCols(norm_intensities) \in {1, NCols(rgba)}
    THEN [r \in 1..NRows(rgba) |->
            [c \in 1..NCols(rgba) |->
                [k \in 1..Len(rgba[r][c]) |->
                    IF k = 3
                    THEN norm_intensities[BIndex(NRows(norm_intensities), r)]
                                         [BIndex(NCols(norm_intensities), c)]
                    ELSE IF k < 3
                    THEN rgb_to_hsv(SubSeq(rgba[r][c], 1, 3))[k]
                    ELSE rgba[r][c][k]]]]
    ELSE rgba

\* hsv = rgb_to_hsv(rgb); hsv[:, :, 2] = norm_intensities; hsv_to_rgb(hsv).
\* rgb_to_hsv writes into a new array, the assignment broadcasts the
\* intensities to the shape of rgb.
hsv_blending(rgba, norm_intensities) ==
    LET Valued(hsv, v) == <<hsv[1], hsv[2], v>>
    IN  IF ~(NRows(norm_intensities) \in {1, NRows(rgba)}
                /\ NCols(norm_intensities) \in {1, NCols(rgba)})
        THEN Raise("ValueError: could not broadcast input array")
        ELSE Ok([r \in 1..NRows(rgba) |->
                   [c \in 1..NCols(rgba) |->
                       hsv_to_rgb(Valued(rgb_to_hsv(SubSeq(rgba[r][c], 1, 3)),
                                         norm_intensities[BIndex(NRows(norm_intensities), r)]
                                                         [BIndex(NCols(norm_intensities), c)]))]])

\* The cells of a 2D array in C order.
Flatten(a) ==
    [j \in 1..(NRows(a) * NCols(a)) |->
        a[((j - 1) \div NCols(a)) + 1][((j - 1) % NCols(a)) + 1]]

\* A slip: the flattened array as a whole three times in a row (np.tile).
repeat3_tiled(a) ==
    [j \in 1..(3 * NRows(a) * NCols(a)) |->
        Flatten(a)[((j - 1) % (NRows(a) * NCols(a))) + 1]]

\* a.repeat(3): the flattened array with every element three times in a row.
repeat3(a) ==
    [j \in 1..(3 * NRows(a) * NCols(a)) |-> Flatten(a)[((j - 1) \div 3) + 1]]

\* flat.reshape((rows, cols, 3)) of a flat array of rows * cols * 3 elements
reshape3(flat, rows, cols) ==
    [r \in 1..rows |->
        [c \in 1..cols |->
            [k \in 1..3 |-> flat[((r - 1) * cols + (c - 1)) * 3 + k]]]]

\* A slip: the factor (1 - 2 * d) of the squared term left out.
pegtop_overlay(d, x) == Add(Mul(Mul(I(2), d), x), Mul(x, x))

\* 2 * d * rgb + (rgb ** 2) * (1 - 2 * d) of one channel
pegtop(d, x) ==
    Add(Mul(Mul(I(2), d), x), Mul(Mul(x, x), Sub(One, Mul(I(2), d))))

\* d = norm_intensities.repeat(3).reshape(rgb.shape), then the Pegtop formula
\* element by element.
pegtop_blending(rgba, norm_intensities) ==
    LET Lit(d) ==
            [r \in 1..NRows(rgba) |->
                [c \in 1..NCols(rgba) |->
                    [k \in 1..3 |-> pegtop(d[r][c][k], rgba[r][c][k])]]]
    IN  IF 3 * NRows(norm_intensities) * NCols(norm_intensities)
                # NRows(rgba) * NCols(rgba) * 3
        THEN Raise("ValueError: cannot reshape array")
        ELSE Ok(Lit(reshape3(repeat3(norm_intensities), NRows(rgba), NCols(rgba))))

\* A slip: the colours are blended in after all.
no_blending_blended(rgba, norm_intensities) ==
    rgb_blending(rgba, norm_intensities)

\* Every array argument of the model is 2-dimensional (an intensity field)
\* or 3-dimensional (an rgba field), as the functions document.
no_blending(rgba, norm_intensities) == Ok(norm_intensities)

\* The blend functions a caller can pass to hill_shade, by name.
blend(blend_function, rgba, norm_intensities) ==
    CASE blend_function = "no_blending" -> no_blending(rgba, norm_intensities)
      [] blend_function = "rgb_blending" -> rgb_blending(rgba, norm_intensities)
      [] blend_function = "hsv_blending" -> hsv_blending(rgba, norm_intensities)
      [] blend_function = "pegtop_blending" ->
            pegtop_blending(rgba, norm_intensities)

-----------------------------------------------------------------------------
(* hillshade.py: hill_shade.                                               *)

HS_DEF_LAMP_WEIGHT == 1

\* A slip: the omitted terrain becomes a level surface, not the data.
default_terrain_level(data, terrain) ==
    IF terrain = None THEN ones_like(data) ELSE terrain

\* if terrain is None: terrain = data
default_terrain(data, terrain) == IF terrain = None THEN data ELSE terrain

\* A slip: only the number of columns is compared.
same_shape_columns(terrain, data) == NCols(terrain) = NCols(data)

\* terrain.shape == data.shape
same_shape(terrain, data) == Shape(terrain) = Shape(data)

\* hill_shade(data, terrain, azimuth, elevation, ambient_weight, lamp_weight,
\*            cmap, vmin, vmax, norm, blend_function):
\* [res |-> what the call returns or raises, norm |-> the caller's Normalize
\* object after the call (NoNorm when the caller passed none)].
hill_shade(data, terrain0, azimuth, elevation, ambient_weight, lamp_weight, cmap, vmin, vmax, nrm, blend_function) ==
    LET Blended(si, col) ==
            IF ~si.ok THEN [res |-> si, norm |-> nrm]
            ELSE IF ~col.res.ok
            THEN [res |-> col.res,
                  norm |-> IF nrm = NoNorm THEN nrm ELSE col.norm]
            ELSE [res |-> blend(blend_function, col.res.val, si.val),
                  norm |-> IF nrm = NoNorm THEN nrm ELSE col.norm]
        Shaded(terrain, azimuths, elevations, lamp_weights) ==
            IF ~same_shape(terrain, data)
            THEN [res |-> Raise("AssertionError: terrain.shape != data.shape"),
                  norm |-> nrm]
            ELSE IF ~same_length(azimuths, elevations)
            THEN [res |-> SizeMismatch("azimuths", "elevations"), norm |-> nrm]
            ELSE IF ~same_length(azimuths, lamp_weights)
            THEN [res |-> SizeMismatch("azimuths", "lamp_weights"),
                  norm |-> nrm]
            ELSE Blended(surface_intensity(terrain, azimuths, elevations,
                                           ambient_weight, lamp_weights),
                         color_data(data, cmap, vmin, vmax, nrm))
    IN  Shaded(default_terrain(data, terrain0), enforce_list(azimuth),
               enforce_list(elevation),
               enforce_list(Bind(lamp_weight, I(HS_DEF_LAMP_WEIGHT))))

-----------------------------------------------------------------------------
(* The matplotlib-style hillshade: novitsky.py, pepshade.py and            *)
(* mpl_surface_intensity of intensity.py.                                  *)

\* np.sin and np.cos of the two angles set_shade passes to hillshade.  Their
\* sines and cosines are irrational; the model takes the nearby points of the
\* unit circle (20/29, 21/29) for 45 degrees and (16/65, -63/65) for 165
\* degrees.
SinDeg(a) ==
    CASE a = "45" -> Q(20, 29)
      [] a = "165" -> Q(16, 65)
      [] OTHER -> Sin(a)

CosDeg(a) ==
    CASE a = "45" -> Q(21, 29)
      [] a = "165" -> Q(-63, 65)
      [] OTHER -> Cos(a)

\* array * k
Times(a, k) == [r \in 1..NRows(a) |-> [c \in 1..NCols(a) |-> Mul(a[r][c], k)]]

\* array / k
Over(a, k) == [r \in 1..NRows(a) |-> [c \in 1..NCols(a) |-> Div(a[r][c], k)]]

\* sin(alt) * sin(slope) + cos(alt) * cos(slope) * cos(-az - aspect - 0.5 * pi)
\* of one pixel, with slope = 0.5 * pi - arctan(hypot(dx, dy)) and
\* aspect = arctan2(dx, dy).  With h = hypot(dx, dy): sin(slope) is
\* 1 / sqrt(1 + h * h), cos(slope) is h / sqrt(1 + h * h), and the last cosine
\* is -sin(az + aspect) = -(sin(az) * dy + cos(az) * dx) / h.
shade_of_pixel(dx, dy, az, alt) ==
    Div(Sub(SinDeg(alt),
            Mul(CosDeg(alt), Add(Mul(SinDeg(az), dy), Mul(CosDeg(az), dx)))),
        Sqrt(Add(One, Add(Mul(dx, dx), Mul(dy, dy)))))

\* The intensity of every pixel from the two gradient arrays.
shade_of(dx, dy, az, alt) ==
    [r \in 1..NRows(dx) |->
        [c \in 1..NCols(dx) |-> shade_of_pixel(dx[r][c], dy[r][c], az, alt)]]

\* (intensity - intensity.min()) / (intensity.max() - intensity.min())
min_max(intensity) ==
    LET Stretch(lo, hi) ==
            [r \in 1..NRows(intensity) |->
                [c \in 1..NCols(intensity) |->
                    Div(Sub(intensity[r][c], lo), Sub(hi, lo))]]
    IN  Stretch(ArrMin(intensity), ArrMax(intensity))

\* The gradients of a terrain, then the intensity, then the stretch to the
\* full range.
normalized_hillshade(terrain, az, alt) ==
    IF ~GradientDefined(terrain) THEN Raise("ValueError: gradient")
    ELSE Ok(min_max(shade_of(GradientRows(terrain), GradientCols(terrain),
                             az, alt)))

\* novitsky.hillshade: the gradient of data / float(scale_terrain)
hillshade(data, scale_terrain, azdeg, altdeg) ==
    normalized_hillshade(Over(data, scale_terrain), azdeg, altdeg)

\* pepshade.hill_shade_intensity: the gradient of terrain * scale_terrain
hill_shade_intensity(terrain, scale_terrain, azimuth, elevation) ==
    normalized_hillshade(Times(terrain, scale_terrain), azimuth, elevation)

\* intensity.mpl_surface_intensity: azim0_is_east swaps the arguments of
\* arctan2; the sanity checks come before the stretch or the clipping.
mpl_surface_intensity(terrain, azimuth, elevation, azim0_is_east, normalize_arg) ==
    IF ~GradientDefined(terrain) THEN Raise("ValueError: gradient")
    ELSE
    LET Checked(intensity) ==
            IF DO_SANITY_CHECKS /\ ~AllGe(intensity, I(-1))
            THEN Raise("AssertionError: cos(theta) should be >= -1")
            ELSE IF DO_SANITY_CHECKS /\ ~AllLe(intensity, One)
            THEN Raise("AssertionError: cos(theta) should be <= 1")
            ELSE IF normalize_arg THEN Ok(min_max(intensity))
            ELSE Ok([r \in 1..NRows(intensity) |->
                        [c \in 1..NCols(intensity) |->
                            ClipUnit(intensity[r][c])]])
        Shade(dx, dy) ==
            Checked(IF azim0_is_east
                    THEN shade_of(dy, dx, azimuth, elevation)
                    ELSE shade_of(dx, dy, azimuth, elevation))
    IN  Shade(GradientRows(terrain), GradientCols(terrain))

\* The arguments of the hillshade call in set_shade.
SET_SHADE_SCALE_TERRAIN == 10
SET_SHADE_AZDEG == "165"
SET_SHADE_ALTDEG == "45"

\* Lines 37-45 of set_shade: the colours of the stretched data, without
\* alpha, and the Pegtop formula with the intensity.
set_shade_rgb(a, intensity, cmap) ==
    LET Colours(n) ==
            [r \in 1..NRows(n) |->
                [c \in 1..NCols(n) |-> SubSeq(cmap_color(cmap, n[r][c]), 1, 3)]]
    IN  IF ~intensity.ok THEN intensity
        ELSE pegtop_blending(Colours(min_max(a)), intensity.val)

\* novitsky.set_shade: with intensity=None the intensity is
\* hillshade(a, scale_terrain=10.0, azdeg=165.0, altdeg=45.0), else the given
\* intensity stretched to the full range.
set_shade(a, intensity0, cmap, scale_terrain, azdeg, altdeg) ==
    set_shade_rgb(a,
                  IF intensity0 = None
                  THEN hillshade(a, I(SET_SHADE_SCALE_TERRAIN), SET_SHADE_AZDEG,
                                 SET_SHADE_ALTDEG)
                  ELSE Ok(min_max(intensity0)),
                  cmap)

-----------------------------------------------------------------------------
(* The inputs of the model.                                                *)

\* The longest list of lamps a caller passes.
MaxLamps == 2

Arr(rows) == [r \in DOMAIN rows |-> [c \in DOMAIN rows[r] |-> I(rows[r][c])]]

Flat == Arr(<< <<0, 0>>, <<0, 0>> >>)
Plane == Arr(<< <<0, 2>>, <<2, 4>> >>)
Saddle == Arr(<< <<0, 2>>, <<2, 0>> >>)
Ridge == << <<Zero, Zero>>, <<Q(3, 4), Q(3, 4)>>, <<Zero, Zero>> >>
Ramp == << <<Zero, Zero>>, <<Q(3, 4), Q(3, 4)>>, <<Q(3, 2), Q(3, 2)>> >>
Strip == Arr(<< <<0, 2>> >>)
WithNaN == << <<NaN, Zero>>, <<Zero, Zero>> >>
WithInf == << <<PInf, Zero>>, <<Zero, Zero>> >>

FiniteTerrains == {Flat, Plane, Saddle, Ridge, Ramp}
Terrains == FiniteTerrains \cup {Strip, WithNaN, WithInf}

\* More terrains for relative_surface_intensity and surface_unit_normals:
\* level ground above 0, a level strip of one row, and ramps along the rows
\* that rise by 4/3 and fall by 3/4 per row.
Level == Arr(<< <<3, 3>>, <<3, 3>> >>)
Sill == Arr(<< <<3, 3>> >>)
Incline == << <<Zero, Zero>>, <<Q(4, 3), Q(4, 3)>>, <<Q(8, 3), Q(8, 3)>> >>
Descent == << <<Q(3, 2), Q(3, 2)>>, <<Q(3, 4), Q(3, 4)>>, <<Zero, Zero>> >>
SurfaceTerrains == Terrains \cup {Level, Sill, Incline, Descent}
Datas == {Flat, Plane, Ridge}

\* The angles and weights the lamp lists are cut from, in this order.
AzimuthSeq == <<"0", "90", "180">>
ElevationSeq == <<"36.87", "90", "0", "-90">>
WeightSeq == <<I(1), I(2), I(0), I(-1)>>
Patterns == 1..4

\* The n elements of seq from position k on, wrapping around.
Cut(seq, k, n) == [i \in 1..n |-> seq[((k + i - 2) % Len(seq)) + 1]]

\* Argument number k of a kind: a scalar (kind -1) or a list of kind elements.
Kinds == -1..MaxLamps
ArgOf(seq, k, kind) ==
    IF kind = -1 THEN Scalar(Cut(seq, k, 1)[1]) ELSE List(Cut(seq, k, kind))

\* The azimuth, elevation and lamp_weight arguments of a call.
LampArgsOf(k) ==
    {<<ArgOf(AzimuthSeq, k, ka), ArgOf(ElevationSeq, k, ke), lw>> :
        ka \in Kinds, ke \in Kinds,
        lw \in {ArgOf(WeightSeq, k, kw) : kw \in Kinds} \cup {Omitted}}

LampArgs == UNION {LampArgsOf(k) : k \in Patterns}

AmbientWeights == {I(0), I(1), I(2)}

Blends == {"no_blending", "rgb_blending"}

\* The blend functions that return a colour array.
ColourBlends == {"rgb_blending", "hsv_blending", "pegtop_blending"}

\* Intensity fields and rgba fields passed to the blend functions directly.
Half == << <<Q(1, 2), Q(1, 4)>>, <<Zero, One>> >>
Tall == << <<Q(1, 2), One>>, <<Q(3, 4), Zero>>, <<Q(1, 4), Q(1, 2)>> >>
Wild == << <<Q(3, 2), I(-1)>>, <<NaN, PInf>> >>
Dim == << <<Q(1, 4), Q(1, 2)>>, <<Q(3, 4), Q(1, 2)>> >>
IntensityFields == {Arr(<< <<0, 0>>, <<0, 0>> >>), Arr(<< <<1, 1>>, <<1, 1>> >>),
                    Half, Tall, Wild, Dim}

Colored(data) == color_data(data, DEF_CMAP, None, None, NoNorm).res.val
\* A 2 x 2 RGB field without alpha channel.
Rgb3 == << << <<One, Zero, Zero>>, <<Zero, One, Q(1, 2)>> >>,
           << <<Q(1, 4), Q(1, 4), Q(1, 4)>>, <<One, One, One>> >> >>
\* The colours of the sloping data with an alpha channel that is not 1.
Translucent ==
    [r \in 1..2 |-> [c \in 1..2 |->
        SubSeq(Colored(Plane)[r][c], 1, 3) \o <<Q(r, 4)>>]]
\* A 3 x 2 RGB field of six different colours.
Stripes ==
    << << <<One, Q(1, 2), Zero>>, <<Q(1, 4), Q(3, 4), Q(1, 2)>> >>,
       << <<Zero, Zero, One>>, <<Q(1, 2), Q(1, 2), Q(1, 4)>> >>,
       << <<Q(3, 4), Zero, Q(3, 4)>>, <<Q(1, 4), One, One>> >> >>
RgbaFields == {Colored(d) : d \in Datas} \cup {Rgb3, Translucent, Stripes}

\* Terrains in the units of the novitsky functions, which divide the heights
\* by scale_terrain: a ridge and a valley of height 15/2.
Ridge10 == << <<Zero, Zero>>, <<Q(15, 2), Q(15, 2)>>, <<Zero, Zero>> >>
Valley10 == << <<Q(15, 2), Q(15, 2)>>, <<Zero, Zero>>, <<Q(15, 2), Q(15, 2)>> >>

\* Pairs of a terrain and a scale_terrain that novitsky.hillshade divides by.
DividedTerrains ==
    {<<t, I(1)>> : t \in FiniteTerrains \cup {Level, Strip, WithNaN}}
        \cup {<<t, k>> : t \in {Ridge10, Valley10}, k \in {I(10), Q(45, 8)}}

\* Pairs of a terrain and a scale_terrain that hill_shade_intensity
\* multiplies by.
MultipliedTerrains ==
    {<<t, I(1)>> : t \in FiniteTerrains \cup {Level, Strip, WithNaN}}
        \cup {<<Ridge, Q(16, 9)>>, <<Ridge10, Q(1, 10)>>}

ShadeAzimuths == {"165", "0", "90", "180"}
ShadeElevations == {"45", "90", "0", "-90"}

\* A colour map that, like jet, is neither black at 0 nor white at 1.
JET_CMAP ==
    [lut |-> << <<Zero, Zero, Q(1, 2), One>>,
                <<Zero, Q(3, 4), One, One>>,
                <<One, Q(3, 4), Zero, One>>,
                <<Q(1, 2), Zero, Zero, One>> >>,
     under |-> <<Zero, Zero, Q(1, 2), One>>,
     over |-> <<Q(1, 2), Zero, Zero, One>>,
     bad |-> <<Zero, Zero, Zero, Zero>>]

\* Masks for replace_nans: the cells that are not finite, and the diagonal.
NonFiniteCells(a) ==
    [r \in 1..NRows(a) |-> [c \in 1..NCols(a) |-> ~IsFinite(a[r][c])]]
Diagonal(a) == [r \in 1..NRows(a) |-> [c \in 1..NCols(a) |-> r = c]]
Masks(a) == {None, NonFiniteCells(a), Diagonal(a)}

-----------------------------------------------------------------------------
(* The calls.                                                              *)

NoResult == Raise("not called")

\* The locals of hill_shade before its first statement: nothing computed,
\* no step taken.
NoFrame ==
    [log |-> <<>>, rel_intensities |-> <<>>, weights |-> <<>>,
     surface_intensity |-> None, rgba |-> None]

RelativeSurfaceIntensityArgs ==
    [terrain : SurfaceTerrains, azimuth : Angles, elevation : Angles]

SurfaceUnitNormalsArgs == [terrain : SurfaceTerrains]

WeightedIntensityArgs ==
    {[terrain |-> t, azimuth |-> l[1], elevation |-> l[2],
      ambient_weight |-> a, lamp_weight |-> l[3]] :
        t \in Terrains, l \in LampArgs, a \in AmbientWeights}

BlendArgs == [rgba : RgbaFields, norm_intensities : IntensityFields]

ReplaceNansArgs ==
    {[array |-> a, array_nan_value |-> v, mask |-> m] :
        a \in {Plane, Ridge, WithNaN, WithInf}, v \in {Zero, I(-1)},
        m \in UNION {Masks(b) : b \in {Plane, Ridge, WithNaN, WithInf}}}

HillshadeArgs ==
    {[data |-> p[1], scale_terrain |-> p[2], azdeg |-> az, altdeg |-> alt] :
        p \in DividedTerrains, az \in ShadeAzimuths, alt \in ShadeElevations}

HillShadeIntensityArgs ==
    {[terrain |-> p[1], scale_terrain |-> p[2], azimuth |-> az,
      elevation |-> alt] :
        p \in MultipliedTerrains, az \in ShadeAzimuths, alt \in ShadeElevations}

MplSurfaceIntensityArgs ==
    [terrain : FiniteTerrains \cup {Level, Strip, WithNaN},
     azimuth : ShadeAzimuths, elevation : ShadeElevations,
     azim0_is_east : BOOLEAN, normalize : BOOLEAN]

SetShadeArgs ==
    [a : {Ridge10, Valley10}, intensity : {None, Tall}, cmap : {JET_CMAP},
     scale_terrain : {I(10), Q(45, 8)}, azdeg : ShadeAzimuths,
     altdeg : ShadeElevations]

HillShadeArgs ==
    {[data |-> d, terrain |-> t, azimuth |-> l[1], elevation |-> l[2],
      ambient_weight |-> a, lamp_weight |-> l[3],
      vmin |-> None, vmax |-> None, blend_function |-> b] :
        d \in Datas, t \in {None, Plane, Saddle, Ramp, WithNaN},
        l \in LampArgs, a \in {I(0), I(1)}, b \in Blends}

Init ==
    /\ pc = "ready"
    /\ result = NoResult
    /\ frame = NoFrame
    /\ norm = Normalize(None, None)
    /\ \/ op = "relative_surface_intensity" /\ args \in RelativeSurfaceIntensityArgs
       \/ op = "surface_unit_normals" /\ args \in SurfaceUnitNormalsArgs
       \/ op = "weighted_intensity" /\ args \in WeightedIntensityArgs
       \/ op = "hill_shade" /\ args \in HillShadeArgs
       \/ op = "no_blending" /\ args \in BlendArgs
       \/ op \in ColourBlends /\ args \in BlendArgs
       \/ op = "hillshade" /\ args \in HillshadeArgs
       \/ op = "hill_shade_intensity" /\ args \in HillShadeIntensityArgs
       \/ op = "mpl_surface_intensity" /\ args \in MplSurfaceIntensityArgs
       \/ op = "set_shade" /\ args \in SetShadeArgs
       \/ /\ op = "replace_nans"
          /\ args \in ReplaceNansArgs
          /\ args.mask \in Masks(args.array)

CallHillshade ==
    /\ pc = "ready"
    /\ op = "hillshade"
    /\ result' = hillshade(args.data, args.scale_terrain, args.azdeg,
                           args.altdeg)
    /\ pc' = "done"
    /\ UNCHANGED <<op, args, norm, frame>>

CallHillShadeIntensity ==
    /\ pc = "ready"
    /\ op = "hill_shade_intensity"
    /\ result' = hill_shade_intensity(args.terrain, args.scale_terrain,
                                      args.azimuth, args.elevation)
    /\ pc' = "done"
    /\ UNCHANGED <<op, args, norm, frame>>

CallMplSurfaceIntensity ==
    /\ pc = "ready"
    /\ op = "mpl_surface_intensity"
    /\ result' = mpl_surface_intensity(args.terrain, args.azimuth,
                                       args.elevation, args.azim0_is_east,
                                       args.normalize)
    /\ pc' = "done"
    /\ UNCHANGED <<op, args, norm, frame>>

CallSetShade ==
    /\ pc = "ready"
    /\ op = "set_shade"
    /\ result' = set_shade(args.a, args.intensity, args.cmap,
                           args.scale_terrain, args.azdeg, args.altdeg)
    /\ pc' = "done"
    /\ UNCHANGED <<op, args, norm, frame>>

CallSurfaceUnitNormals ==
    /\ pc = "ready"
    /\ op = "surface_unit_normals"
    /\ result' = IF GradientDefined(args.terrain)
                 THEN Ok(surface_unit_normals(args.terrain))
                 ELSE Raise("ValueError: gradient")
    /\ pc' = "done"
    /\ UNCHANGED <<op, args, norm, frame>>

CallRelativeSurfaceIntensity ==
    /\ pc = "ready"
    /\ op = "relative_surface_intensity"
    /\ result' = relative_surface_intensity(args.terrain, args.azimuth,
                                            args.elevation)
    /\ pc' = "done"
    /\ UNCHANGED <<op, args, norm, frame>>

\* hill_shade(**a) called without a Normalize object (norm=None).
HillShadeOf(a) ==
    hill_shade(a.data, a.terrain, a.azimuth, a.elevation, a.ambient_weight,
               a.lamp_weight, DEF_CMAP, a.vmin, a.vmax, NoNorm,
               a.blend_function).res

WeightedIntensityOf(a) ==
    weighted_intensity(a.terrain, a.azimuth, a.elevation, a.ambient_weight,
                       a.lamp_weight)

CallWeightedIntensity ==
    /\ pc = "ready"
    /\ op = "weighted_intensity"
    /\ result' = WeightedIntensityOf(args)
    /\ pc' = "done"
    /\ UNCHANGED <<op, args, norm, frame>>

CallHillShade ==
    /\ pc = "ready"
    /\ op = "hill_shade"
    /\ result' = HillShadeOf(args)
    /\ pc' = "done"
    /\ UNCHANGED <<op, args, norm, frame>>

CallNoBlending ==
    /\ pc = "ready"
    /\ op = "no_blending"
    /\ result' = no_blending(args.rgba, args.norm_intensities)
    /\ pc' = "done"
    /\ UNCHANGED <<op, args, norm, frame>>

CallRgbBlending ==
    /\ pc = "ready"
    /\ op = "rgb_blending"
    /\ result' = rgb_blending(args.rgba, args.norm_intensities)
    /\ pc' = "done"
    /\ UNCHANGED <<op, args, norm, frame>>

CallHsvBlending ==
    /\ pc = "ready"
    /\ op = "hsv_blending"
    /\ result' = hsv_blending(args.rgba, args.norm_intensities)
    /\ args' = [args EXCEPT
                    !.rgba = hsv_blending_rgba(args.rgba, args.norm_intensities)]
    /\ pc' = "done"
    /\ UNCHANGED <<op, norm, frame>>

CallReplaceNans ==
    /\ pc = "ready"
    /\ op = "replace_nans"
    /\ \E after \in {replace_nans(args.array, args.array_nan_value, args.mask)} :
            /\ result' = after.res
            /\ args' = [args EXCEPT !.array = after.array]
    /\ pc' = "done"
    /\ UNCHANGED <<op, norm, frame>>

CallPegtopBlending ==
    /\ pc = "ready"
    /\ op = "pegtop_blending"
    /\ result' = pegtop_blending(args.rgba, args.norm_intensities)
    /\ pc' = "done"
    /\ UNCHANGED <<op, args, norm, frame>>

Next ==
    \/ CallRelativeSurfaceIntensity
    \/ CallWeightedIntensity
    \/ CallHillShade
    \/ CallNoBlending
    \/ CallRgbBlending
    \/ CallHsvBlending
    \/ CallPegtopBlending
    \/ CallReplaceNans
    \/ CallSurfaceUnitNormals
    \/ CallHillshade
    \/ CallHillShadeIntensity
    \/ CallMplSurfaceIntensity
    \/ CallSetShade

Spec == Init /\ [][Next]_vars

-----------------------------------------------------------------------------
(* A caller that constructs one Normalize object and passes it as norm to  *)
(* every hill_shade call it makes, as demo_multi_source.py does.  args.norm *)
(* is the object as the caller constructed it, the variable norm the object *)
(* as it is now.                                                            *)

Low == Arr(<< <<0, 1>>, <<1, 2>> >>)
High == Arr(<< <<2, 4>>, <<4, 8>> >>)
SessionDatas == {Flat, Plane, Low, High}
SessionNorms == {Normalize(None, None), Normalize(I(0), I(4))}

SessionArgs ==
    {[data |-> d, terrain |-> Plane, azimuth |-> Scalar(l[1]),
      elevation |-> Scalar(l[2]), ambient_weight |-> I(1),
      lamp_weight |-> Scalar(I(1)), vmin |-> None, vmax |-> None,
      norm |-> n, blend_function |-> b] :
        d \in SessionDatas, l \in {<<"0", "36.87">>, <<"90", "90">>},
        n \in SessionNorms, b \in {"no_blending", "rgb_blending"}}

\* hill_shade(**a) with the Normalize object nrm passed as norm.
HillShadeWithNorm(a, nrm) ==
    hill_shade(a.data, a.terrain, a.azimuth, a.elevation, a.ambient_weight,
               a.lamp_weight, DEF_CMAP, a.vmin, a.vmax, nrm, a.blend_function)

SessionInit ==
    /\ pc = "ready"
    /\ op = "hill_shade"
    /\ args \in SessionArgs
    /\ norm = args.norm
    /\ result = NoResult
    /\ frame = NoFrame

CallHillShadeWithNorm ==
    /\ pc = "ready"
    /\ \E hs \in {HillShadeWithNorm(args, norm)} :
            /\ result' = hs.res
            /\ norm' = hs.norm
    /\ pc' = "done"
    /\ UNCHANGED <<op, args, frame>>

\* The caller makes its next call, with the same Normalize object.
NextCall ==
    /\ pc = "done"
    /\ pc' = "ready"
    /\ args' \in {a \in SessionArgs : a.norm = args.norm}
    /\ result' = NoResult
    /\ UNCHANGED <<op, norm, frame>>

SessionNext ==
    \/ CallHillShadeWithNorm
    \/ NextCall

SessionSpec == SessionInit /\ [][SessionNext]_vars

-----------------------------------------------------------------------------
(* One hill_shade call followed statement by statement.  pc is the step    *)
(* about to be taken, frame holds the locals computed so far and the log   *)
(* of the steps taken; a step that raises ends the call.                   *)

\* A slip: the data are coloured before anything is checked.
StepOrder_colour_first ==
    <<"color_data", "shape_check", "length_checks", "lamps", "combine", "blend">>

\* The statements of hill_shade in program order.
StepOrder ==
    <<"shape_check", "length_checks", "lamps", "combine", "color_data", "blend">>

\* The step after a step; the call is done after the last.
After(step) ==
    LET k == CHOOSE i \in DOMAIN StepOrder : StepOrder[i] = step
    IN  IF k = Len(StepOrder) THEN "done" ELSE StepOrder[k + 1]

\* The locals of the call, from its arguments.
Terrain == default_terrain(args.data, args.terrain)
Azimuths == enforce_list(args.azimuth)
Elevations == enforce_list(args.elevation)
LampWeights == enforce_list(Bind(args.lamp_weight, I(HS_DEF_LAMP_WEIGHT)))

\* The lamp the loop computes next: one more than the lamps computed.
NextLamp(f) == Len(f.rel_intensities)

\* The loop over zip(...) is left when the shortest list is used up.
LoopDone(f) == NextLamp(f) > zip_length(Azimuths, Elevations, LampWeights)

\* The log with one more step; lamp is 0 for a step that is not a lamp.
Logged(f, step, lamp) ==
    [f EXCEPT !.log = Append(@, [step |-> step, lamp |-> lamp])]

\* The step ends the call with an exception.
Raises(e) ==
    /\ result' = e
    /\ pc' = "done"

\* The step falls through to the next statement.
Continues(step) ==
    /\ pc' = After(step)
    /\ UNCHANGED result

StepInit ==
    /\ pc = StepOrder[1]
    /\ op = "hill_shade"
    /\ args \in HillShadeArgs
    /\ result = NoResult
    /\ norm = Normalize(None, None)
    /\ frame = NoFrame

\* assert terrain.shape == data.shape
ShapeCheck ==
    /\ pc = "shape_check"
    /\ frame' = Logged(frame, "shape_check", 0)
    /\ IF same_shape(Terrain, args.data)
       THEN Continues("shape_check")
       ELSE Raises(Raise("AssertionError: terrain.shape != data.shape"))
    /\ UNCHANGED <<op, args, norm>>

\* The two assert_same_length calls, then the ambient layer and weight.
LengthChecks ==
    /\ pc = "length_checks"
    /\ IF ~same_length(Azimuths, Elevations)
       THEN /\ Raises(SizeMismatch("azimuths", "elevations"))
            /\ frame' = Logged(frame, "length_checks", 0)
       ELSE IF ~same_length(Azimuths, LampWeights)
       THEN /\ Raises(SizeMismatch("azimuths", "lamp_weights"))
            /\ frame' = Logged(frame, "length_checks", 0)
       ELSE /\ Continues("length_checks")
            /\ frame' = [Logged(frame, "length_checks", 0) EXCEPT
                            !.rel_intensities = <<ones_like(Terrain)>>,
                            !.weights = <<args.ambient_weight>>]
    /\ UNCHANGED <<op, args, norm>>

\* The loop has no lamp to compute: control passes to the next statement.
LeaveLoop ==
    /\ pc = "lamps"
    /\ LoopDone(frame)
    /\ Continues("lamps")
    /\ UNCHANGED <<op, args, norm, frame>>

\* One iteration of the loop: relative_surface_intensity of the next lamp.
LampStep ==
    /\ pc = "lamps"
    /\ ~LoopDone(frame)
    /\ \E i \in {NextLamp(frame)} :
         \E rel_int \in {relative_surface_intensity(Terrain, Azimuths[i],
                                                    Elevations[i])} :
            IF rel_int.ok
            THEN /\ frame' = [Logged(frame, "lamps", i) EXCEPT
                                !.rel_intensities = Append(@, rel_int.val),
                                !.weights = Append(@, LampWeights[i])]
                 /\ UNCHANGED <<pc, result>>
            ELSE /\ frame' = Logged(frame, "lamps", i)
                 /\ Raises(rel_int)
    /\ UNCHANGED <<op, args, norm>>

\* unit_weights = weights / np.sum(weights), then np.average
Combine ==
    /\ pc = "combine"
    /\ \E avg \in {np_average(frame.rel_intensities,
                               unit_weights(frame.weights))} :
            IF avg.ok
            THEN /\ frame' = [Logged(frame, "combine", 0) EXCEPT
                                !.surface_intensity = avg.val]
                 /\ Continues("combine")
            ELSE /\ frame' = Logged(frame, "combine", 0)
                 /\ Raises(avg)
    /\ UNCHANGED <<op, args, norm>>

\* rgba = color_data(data, cmap=cmap, vmin=vmin, vmax=vmax, norm=norm)
ColorData ==
    /\ pc = "color_data"
    /\ \E col \in {color_data(args.data, DEF_CMAP, args.vmin, args.vmax,
                               NoNorm).res} :
            IF col.ok
            THEN /\ frame' = [Logged(frame, "color_data", 0) EXCEPT
                                !.rgba = col.val]
                 /\ Continues("color_data")
            ELSE /\ frame' = Logged(frame, "color_data", 0)
                 /\ Raises(col)
    /\ UNCHANGED <<op, args, norm>>

\* return blend_function(rgba, surface_intensity)
Blend ==
    /\ pc = "blend"
    /\ frame' = Logged(frame, "blend", 0)
    /\ result' = blend(args.blend_function, frame.rgba,
                       frame.surface_intensity)
    /\ pc' = "done"
    /\ UNCHANGED <<op, args, norm>>

StepNext ==
    \/ ShapeCheck
    \/ LengthChecks
    \/ LeaveLoop
    \/ LampStep
    \/ Combine
    \/ ColorData
    \/ Blend

StepSpec == StepInit /\ [][StepNext]_vars

-----------------------------------------------------------------------------
(* The claims.                                                             *)

Done(f) == pc = "done" /\ op = f

\* The terrain hill_shade shades: the data when terrain is omitted.
ShadedTerrain(a) == IF a.terrain = None THEN a.data ELSE a.terrain

\* C1: hill_shade called with terrain omitted returns what hill_shade called
\* with terrain=data returns, or raises the error that call raises.
C1_TerrainOmittedIsData ==
    (Done("hill_shade") /\ args.terrain = None)
        => result = HillShadeOf([args EXCEPT !.terrain = args.data])

\* C1 witness: a self-shaded, coloured relief of a sloping data array.
C1_Witness ==
    /\ Done("hill_shade")
    /\ args.terrain = None
    /\ args.data = Plane
    /\ args.blend_function = "rgb_blending"
    /\ Len(enforce_list(args.azimuth)) = 1
    /\ result.ok

\* C2: hill_shade called with a terrain whose shape differs from the shape
\* of data fails with the shape-mismatch error.
C2_ShapeMismatchFails ==
    (Done("hill_shade") /\ args.terrain # None
        /\ Shape(args.terrain) # Shape(args.data))
        => result = Raise("AssertionError: terrain.shape != data.shape")

\* C2 witness: a 2 x 2 terrain with 3 x 2 data.
C2_Witness ==
    /\ Done("hill_shade")
    /\ args.terrain = Plane
    /\ args.data = Ridge
    /\ ~result.ok

\* The lamp lists as the specification normalizes them: each argument made a
\* list, a single lamp weight repeated once per azimuth.
NormalizedLists(a, default_weight) ==
    LET az == enforce_list(a.azimuth)
        el == enforce_list(a.elevation)
        lw == enforce_list(Bind(a.lamp_weight, default_weight))
    IN  <<az, el, IF Len(lw) = 1 THEN Repeat(lw, Len(az)) ELSE lw>>

LengthsDiffer(l) == ~(Len(l[1]) = Len(l[2]) /\ Len(l[1]) = Len(l[3]))

IsSizeMismatch(res) ==
    /\ ~res.ok
    /\ res.err \in {SizeMismatch("azimuths", "elevations").err,
                    SizeMismatch("azimuths", "lamp_weights").err}

\* C3: when the normalized azimuth, elevation and lamp_weight lists do not
\* all have the same length, weighted_intensity and hill_shade fail: with the
\* size-mismatch error, hill_shade after its shape check has passed.
C3_LengthMismatchFails ==
    /\ (Done("weighted_intensity")
            /\ LengthsDiffer(NormalizedLists(args, I(DEF_LAMP_WEIGHT))))
        => IsSizeMismatch(result)
    /\ (Done("hill_shade")
            /\ LengthsDiffer(NormalizedLists(args, I(HS_DEF_LAMP_WEIGHT))))
        => /\ ~result.ok
           /\ Shape(ShadedTerrain(args)) = Shape(args.data)
                => IsSizeMismatch(result)

\* C3 witness: hill_shade with two azimuths and one elevation, which zip
\* would have cut to one lamp.
C3_Witness ==
    /\ Done("hill_shade")
    /\ Shape(ShadedTerrain(args)) = Shape(args.data)
    /\ Len(enforce_list(args.azimuth)) = 2
    /\ Len(enforce_list(args.elevation)) = 1
    /\ IsSizeMismatch(result)

\* The lamp lists as each function builds them: weighted_intensity repeats a
\* single weight once per azimuth, hill_shade does not.
BuiltLists(f, a) ==
    IF f = "weighted_intensity" THEN NormalizedLists(a, I(DEF_LAMP_WEIGHT))
    ELSE <<enforce_list(a.azimuth), enforce_list(a.elevation),
           enforce_list(Bind(a.lamp_weight, I(HS_DEF_LAMP_WEIGHT)))>>

\* The sum of the ambient weight and the lamp weights of a call.
WeightTotal(f, a) == Add(a.ambient_weight, SumSeq(BuiltLists(f, a)[3]))

\* A call that returns the combined surface intensity itself.
IntensityCall ==
    \/ Done("weighted_intensity")
    \/ Done("hill_shade") /\ args.blend_function = "no_blending"

IntensityTerrain == IF op = "hill_shade" THEN ShadedTerrain(args) ELSE args.terrain

\* N > 1 azimuths and N elevations with a single scalar (or omitted) weight.
ScalarWeightForLamps(a) ==
    /\ a.azimuth.kind = "list"
    /\ a.elevation.kind = "list"
    /\ Len(a.azimuth.xs) > 1
    /\ Len(a.elevation.xs) = Len(a.azimuth.xs)
    /\ a.lamp_weight.kind \in {"scalar", "omitted"}

\* lamp_weight written out as the list of N copies of the scalar.
WithCopies(a, default_weight) ==
    [a EXCEPT !.lamp_weight =
        List(Repeat(enforce_list(Bind(a.lamp_weight, default_weight)),
                    Len(a.azimuth.xs)))]

\* C4: with N > 1 azimuths, N elevations and one scalar (or the default)
\* lamp_weight w, hill_shade and weighted_intensity do what they do for
\* lamp_weight = N copies of w.  (hill_shade raises the size-mismatch error.)
C4_ScalarWeightBroadcast ==
    /\ (Done("weighted_intensity") /\ ScalarWeightForLamps(args))
        => result = WeightedIntensityOf(WithCopies(args, I(DEF_LAMP_WEIGHT)))
    /\ (Done("hill_shade") /\ ScalarWeightForLamps(args))
        => result = HillShadeOf(WithCopies(args, I(HS_DEF_LAMP_WEIGHT)))

\* C5: when the ambient weight and the lamp weights sum to zero, the call
\* reports an error.  (The code divides and returns a field of NaN.)
C5_ZeroWeightSumReported ==
    (pc = "done" /\ op \in {"weighted_intensity", "hill_shade"}
        /\ ~LengthsDiffer(BuiltLists(op, args))
        /\ WeightTotal(op, args) = Zero)
        => ~result.ok

\* replace_nans as the specification intends it: every cell that is not
\* finite replaced by the fallback value.
Sanitized(terrain, fallback) ==
    [r \in 1..NRows(terrain) |->
        [c \in 1..NCols(terrain) |->
            IF IsFinite(terrain[r][c]) THEN terrain[r][c] ELSE fallback]]

\* C6: hill_shade of a terrain with NaN or infinite cells returns what it
\* returns for the terrain with those cells replaced by 0.  (hill_shade does
\* not replace them and the sanity check of the intensity fails.)
C6_NonFiniteTerrainSanitized ==
    (Done("hill_shade")
        /\ \E x \in Cells(ShadedTerrain(args)) : ~IsFinite(x))
        => result = HillShadeOf(
                [args EXCEPT !.terrain = Sanitized(ShadedTerrain(args), Zero)])

\* The relative intensity of lamp i of the call at pixel (r, c).
LampIntensity(i, r, c) ==
    LET l == BuiltLists(op, args)
    IN  relative_surface_intensity(IntensityTerrain, l[1][i], l[2][i]).val[r][c]

\* (a + sum_i w_i * L_i) / (a + sum_i w_i) at pixel (r, c)
WeightedMean(r, c) ==
    LET lw == BuiltLists(op, args)[3]
    IN  Div(Add(args.ambient_weight,
                SumSeq([i \in DOMAIN lw |-> Mul(lw[i], LampIntensity(i, r, c))])),
            WeightTotal(op, args))

Positive(x) == Lt(Zero, x)
NonNegative(x) == Le(Zero, x)

\* The ambient weight and the lamp weights of the call.
Weights == <<args.ambient_weight>> \o BuiltLists(op, args)[3]
AllWeightsPositive == \A i \in DOMAIN Weights : Positive(Weights[i])
NoWeightNegative == \A i \in DOMAIN Weights : NonNegative(Weights[i])
InUnit(x) == Le(Zero, x) /\ Le(x, One)

\* C7: with a positive ambient weight a and positive lamp weights w_i, the
\* combined intensity at every pixel is (a + sum_i w_i * L_i) / (a + sum_i w_i),
\* L_i the relative surface intensity of lamp i at that pixel.
C7_WeightedMean ==
    (IntensityCall /\ result.ok /\ AllWeightsPositive)
        => \A r \in 1..NRows(result.val), c \in 1..NCols(result.val) :
                result.val[r][c] = WeightedMean(r, c)

\* C7 witness: two lamps of weights 1 and 2 on the ridge, a pixel partly lit.
C7_Witness ==
    /\ Done("weighted_intensity")
    /\ result.ok
    /\ args.terrain = Ridge
    /\ AllWeightsPositive
    /\ BuiltLists(op, args)[3] = <<I(1), I(2)>>
    /\ \E x \in Cells(result.val) : Lt(Zero, x) /\ Lt(x, One)

\* C8 as stated: whenever the weights sum to a positive number, every pixel
\* of the combined intensity lies in [0,1].
C8_UnitRangeForPositiveSum ==
    (IntensityCall /\ result.ok /\ Positive(WeightTotal(op, args)))
        => \A x \in Cells(result.val) : InUnit(x)

\* C8 amended: whenever no weight is negative and the weights sum to a
\* positive number, every pixel of the combined intensity lies in [0,1].
C8_UnitRangeForConvexWeights ==
    (IntensityCall /\ result.ok /\ NoWeightNegative
        /\ Positive(WeightTotal(op, args)))
        => \A x \in Cells(result.val) : InUnit(x)

\* C8 witness: lamps that leave a pixel unlit and no ambient light.
C8_Witness ==
    /\ IntensityCall
    /\ result.ok
    /\ NoWeightNegative
    /\ args.ambient_weight = Zero
    /\ Positive(WeightTotal(op, args))
    /\ Zero \in Cells(result.val)
    /\ \E x \in Cells(result.val) : Lt(Zero, x)

\* cos(theta) at pixel (r, c) from the gradients: the unit normal is
\* (1, -dr, -dc) / sqrt(1 + dr^2 + dc^2), the light (sin e, cos e sin a,
\* cos e cos a).
CosTheta(terrain, azimuth, elevation, r, c) ==
    LET dr == GradientRows(terrain)[r][c]
        dc == GradientCols(terrain)[r][c]
        num == Sub(Sub(Sin(elevation), Mul(dr, Mul(Cos(elevation), Sin(azimuth)))),
                   Mul(dc, Mul(Cos(elevation), Cos(azimuth))))
    IN  Div(num, Sqrt(Add(One, Add(Mul(dr, dr), Mul(dc, dc)))))

\* C9: where relative_surface_intensity returns, every pixel is cos(theta)
\* when cos(theta) >= 0 and 0 when cos(theta) < 0, and lies in [0,1].
C9_ClippedCosine ==
    (Done("relative_surface_intensity") /\ result.ok)
        => \A r \in 1..NRows(result.val), c \in 1..NCols(result.val) :
            LET d == CosTheta(args.terrain, args.azimuth, args.elevation, r, c)
            IN  /\ Le(Zero, d) => result.val[r][c] = d
                /\ Lt(d, Zero) => result.val[r][c] = Zero
                /\ InUnit(result.val[r][c])

\* C9 witness: one pixel turned away from the light, another partly lit.
C9_Witness ==
    /\ Done("relative_surface_intensity")
    /\ result.ok
    /\ \E r \in 1..NRows(result.val), c \in 1..NCols(result.val) :
            Lt(CosTheta(args.terrain, args.azimuth, args.elevation, r, c), Zero)
    /\ \E x \in Cells(result.val) : Lt(Zero, x) /\ Lt(x, One)

\* C10: no_blending returns its intensity argument, whatever rgba is.
C10_NoBlendingIsIdentity ==
    Done("no_blending") => result = Ok(args.norm_intensities)

\* C10 witness: an rgba field of another shape than the intensity field.
C10_Witness ==
    /\ Done("no_blending")
    /\ Shape(args.rgba) # Shape(args.norm_intensities)
    /\ args.norm_intensities = Half
    /\ result.ok

\* The colour and intensity fields of a blend call have the same rows and
\* columns.
BlendShapesAgree == Shape(args.rgba) = Shape(args.norm_intensities)

\* The RGB channels of an rgba field.
Rgb(rgba) ==
    [r \in 1..NRows(rgba) |-> [c \in 1..NCols(rgba) |-> SubSeq(rgba[r][c], 1, 3)]]

Uniform(a, v) == \A x \in Cells(a) : x = v

Black == <<Zero, Zero, Zero>>

\* C11: rgb_blending returns rgba[r,c,k] * intensity[r,c] for every pixel and
\* channel k in 0..2; intensities that are all 1 give the RGB channels of
\* rgba, intensities that are all 0 give an all-black array.
C11_RgbBlendingIsProduct ==
    (Done("rgb_blending") /\ BlendShapesAgree)
        => /\ result.ok
           /\ \A r \in 1..NRows(args.rgba), c \in 1..NCols(args.rgba), k \in 1..3 :
                result.val[r][c][k] =
                    Mul(args.rgba[r][c][k], args.norm_intensities[r][c])
           /\ Uniform(args.norm_intensities, One) => result.val = Rgb(args.rgba)
           /\ Uniform(args.norm_intensities, Zero)
                => \A px \in Cells(result.val) : px = Black

\* C11 witness: a colour that is not black blended with no light at all.
C11_Witness ==
    /\ Done("rgb_blending")
    /\ BlendShapesAgree
    /\ Uniform(args.norm_intensities, Zero)
    /\ \E px \in Cells(args.rgba) : SubSeq(px, 1, 3) # Black
    /\ result.ok

\* 2*I*x + x*x*(1 - 2*I)
PegtopLight(i, x) ==
    Add(Mul(Mul(I(2), i), x), Mul(Mul(x, x), Sub(One, Mul(I(2), i))))

\* C12: pegtop_blending returns 2*I*x + x*x*(1 - 2*I) for every pixel and
\* channel k in 0..2, x = rgba[r,c,k] and I = intensity[r,c] of that same
\* pixel, whatever the number of rows and columns.
C12_PegtopPairsPixels ==
    (Done("pegtop_blending") /\ BlendShapesAgree)
        => /\ result.ok
           /\ \A r \in 1..NRows(args.rgba), c \in 1..NCols(args.rgba), k \in 1..3 :
                result.val[r][c][k] =
                    PegtopLight(args.norm_intensities[r][c], args.rgba[r][c][k])

\* C12 witness: a 3 x 2 field of different colours under different
\* intensities.
C12_Witness ==
    /\ Done("pegtop_blending")
    /\ args.rgba = Stripes
    /\ args.norm_intensities = Tall
    /\ result.ok

White == <<One, One, One>>

Gray(v) == <<v, v, v>>

\* Every intensity of the blend call is a normalized intensity, in [0,1].
IntensitiesInUnit == \A x \in Cells(args.norm_intensities) : InUnit(x)

\* C13: for intensities in [0,1], the largest RGB channel of every pixel
\* hsv_blending returns is the intensity of the pixel; where the intensity
\* is not 0 the output has the hue and the saturation of the input colour;
\* a black or a white input colour comes out as the gray (I, I, I).
C13_HsvValueIsIntensity ==
    (Done("hsv_blending") /\ BlendShapesAgree /\ IntensitiesInUnit)
        => /\ result.ok
           /\ \A r \in 1..NRows(args.rgba), c \in 1..NCols(args.rgba) :
                LET colour == SubSeq(args.rgba[r][c], 1, 3)
                    out == result.val[r][c]
                    v == args.norm_intensities[r][c]
                IN  /\ Max3(out) = v
                    /\ Lt(Zero, v) =>
                        SubSeq(rgb_to_hsv(out), 1, 2)
                            = SubSeq(rgb_to_hsv(colour), 1, 2)
                    /\ colour \in {Black, White} => out = Gray(v)

\* C13 witness: a black and a white colour-table entry under intensities
\* 1/4 and 1/2, next to a pixel with a hue.
C13_Witness ==
    /\ Done("hsv_blending")
    /\ args.rgba = Colored(Plane)
    /\ args.norm_intensities = Dim
    /\ result.ok
    /\ result.val[1][1] = Gray(Q(1, 4))
    /\ result.val[2][2] = Gray(Q(1, 2))
    /\ rgb_to_hsv(SubSeq(args.rgba[1][2], 1, 3))[2] # Zero

\* rgba with the alpha channel of every pixel set to alpha (added when rgba
\* has none).
WithAlpha(rgba, alpha) ==
    [r \in 1..NRows(rgba) |->
        [c \in 1..NCols(rgba) |-> SubSeq(rgba[r][c], 1, 3) \o <<alpha>>]]

\* C14: what rgb_blending, hsv_blending and pegtop_blending return has 3
\* channels in every pixel, is what they return for the RGB channels of rgba
\* alone, and is what they return for rgba with any other alpha channel.
C14_AlphaIgnored ==
    (pc = "done" /\ op \in ColourBlends)
        => /\ result.ok => \A px \in Cells(result.val) : Len(px) = 3
           /\ result = blend(op, Rgb(args.rgba), args.norm_intensities)
           /\ \A alpha \in {Zero, Q(1, 2), One} :
                result = blend(op, WithAlpha(args.rgba, alpha),
                               args.norm_intensities)

\* C14 witness: a colour field whose alpha channel is 1/4 and 1/2.
C14_Witness ==
    /\ Done("rgb_blending")
    /\ args.rgba = Translucent
    /\ args.norm_intensities = Dim
    /\ result.ok
    /\ Len(args.rgba[1][1]) = 4

\* C15: no call writes into an array of the caller: the arrays passed in
\* hold after the call the values they held before it.
C15_InputsNotWritten == [][args' = args]_vars

\* C15 witness: replace_nans has replaced cells under a mask - in its copy.
C15_Witness ==
    /\ Done("replace_nans")
    /\ args.array = WithNaN
    /\ np_any(args.mask)
    /\ result.ok
    /\ result.val # args.array

\* C16: the result of a hill_shade call is the result of that call made with
\* the Normalize object as the caller constructed it, whatever calls were
\* made with the object before, and the call leaves the object's vmin and
\* vmax as they were.  (An unscaled Normalize object is scaled by the first
\* call and stays scaled.)
C16_CallsIndependent ==
    Done("hill_shade")
        => /\ result = HillShadeWithNorm(args, args.norm).res
           /\ norm = args.norm

\* Every cell of the terrain has the same finite height.
IsFlat(terrain) ==
    \A x \in Cells(terrain), y \in Cells(terrain) : IsFinite(x) /\ x = y

\* The terrain shape of the call came back with value v at every pixel.
UniformResult(v) ==
    /\ result.ok
    /\ Shape(result.val) = Shape(args.terrain)
    /\ Uniform(result.val, v)

\* C17 as stated: on a flat terrain relative_surface_intensity returns
\* sin(elevation) at every pixel, for any azimuth and elevation.
C17_FlatTerrainSine ==
    (/\ Done("relative_surface_intensity")
     /\ IsFlat(args.terrain)
     /\ GradientDefined(args.terrain))
        => UniformResult(Sin(args.elevation))

\* C17: on a flat terrain of at least 2 rows and 2 columns
\* relative_surface_intensity returns, for any azimuth, sin(elevation) at
\* every pixel when sin(elevation) >= 0 and 0 at every pixel when
\* sin(elevation) < 0.
C17_FlatTerrainClippedSine ==
    (/\ Done("relative_surface_intensity")
     /\ IsFlat(args.terrain)
     /\ GradientDefined(args.terrain))
        => UniformResult(IF Lt(Sin(args.elevation), Zero)
                         THEN Zero ELSE Sin(args.elevation))

\* C17 witness: level ground lit from below the horizon comes out dark, and
\* the call was made with an azimuth whose sine and cosine differ from those
\* of the elevation.
C17_Witness ==
    /\ Done("relative_surface_intensity")
    /\ args.terrain = Level
    /\ args.elevation = "-90"
    /\ args.azimuth = "53.13"
    /\ UniformResult(Zero)

\* The terrain is a linear ramp along the rows: finite, the same height
\* along every row, and the same rise from every row to the next.
IsRowRamp(terrain) ==
    /\ GradientDefined(terrain)
    /\ \A x \in Cells(terrain) : IsFinite(x)
    /\ \A r \in 1..NRows(terrain), c \in 1..NCols(terrain) :
            /\ terrain[r][c] = terrain[r][1]
            /\ r > 1 => Sub(terrain[r][c], terrain[r - 1][c])
                            = Sub(terrain[2][1], terrain[1][1])

\* The slope k of a ramp along the rows.
Slope(terrain) == Sub(terrain[2][1], terrain[1][1])

\* C18 as stated: a ramp along the rows under a light at elevation 90 gets
\* intensity 1 at every pixel, whatever its slope.
C18_RampUnderZenithIsOne ==
    (/\ Done("relative_surface_intensity")
     /\ IsRowRamp(args.terrain)
     /\ args.elevation = "90")
        => UniformResult(One)

\* C18: a ramp along the rows with slope k under a light at elevation 90
\* (any azimuth) gets the intensity 1 / sqrt(1 + k * k) at every pixel: the
\* value v >= 0 with v * v * (1 + k * k) = 1, which is 1 only for k = 0.
C18_RampUnderZenith ==
    (/\ Done("relative_surface_intensity")
     /\ IsRowRamp(args.terrain)
     /\ args.elevation = "90")
        => /\ result.ok
           /\ Shape(result.val) = Shape(args.terrain)
           /\ \A v \in Cells(result.val) :
                LET k == Slope(args.terrain)
                IN  /\ Ge(v, Zero)
                    /\ Mul(Mul(v, v), Add(One, Mul(k, k))) = One
                    /\ (v = One) <=> (k = Zero)

\* C18 witness: the ramp of slope 3/4 under the zenith light gets 4/5.
C18_Witness ==
    /\ Done("relative_surface_intensity")
    /\ args.terrain = Ramp
    /\ args.elevation = "90"
    /\ args.azimuth = "180"
    /\ UniformResult(Q(4, 5))

\* C19: for a finite height field that np.gradient accepts, at every pixel
\* the un-normalized normal is (1, -dr, -dc), its squared magnitude
\* 1 + dr * dr + dc * dc is at least 1, and the vector surface_unit_normals
\* returns is that normal divided by its magnitude and has magnitude 1.
C19_UnitNormals ==
    (/\ Done("surface_unit_normals")
     /\ GradientDefined(args.terrain)
     /\ \A x \in Cells(args.terrain) : IsFinite(x))
        => /\ result.ok
           /\ Shape(result.val) = Shape(args.terrain)
           /\ \A r \in 1..NRows(args.terrain), c \in 1..NCols(args.terrain) :
                LET dr == GradientRows(args.terrain)[r][c]
                    dc == GradientCols(args.terrain)[r][c]
                    n == <<One, Neg(dr), Neg(dc)>>
                    u == result.val[r][c]
                    m == Sqrt(Dot(n, n))
                IN  /\ surface_normals(args.terrain)[r][c] = n
                    /\ Ge(Dot(n, n), One)
                    /\ Ge(m, One)
                    /\ u = <<Div(n[1], m), Div(n[2], m), Div(n[3], m)>>
                    /\ Dot(u, u) = One

\* C19 witness: the ridge, whose row gradient is 3/4, 0 and -3/4, has unit
\* normals (4/5, -3/5, 0), (1, 0, 0) and (4/5, 3/5, 0).
C19_Witness ==
    /\ Done("surface_unit_normals")
    /\ args.terrain = Ridge
    /\ result.ok
    /\ result.val[1][1] = <<Q(4, 5), Q(-3, 5), Zero>>
    /\ result.val[2][1] = <<One, Zero, Zero>>
    /\ result.val[3][2] = <<Q(4, 5), Q(3, 5), Zero>>

\* Every value of the rgba field of the blend call, alpha included, is in
\* [0,1].
RgbaInUnit ==
    \A r \in 1..NRows(args.rgba), c \in 1..NCols(args.rgba) :
        \A k \in DOMAIN args.rgba[r][c] : InUnit(args.rgba[r][c][k])

\* C20: when every rgba value and every intensity lies in [0,1], every value
\* of the array rgb_blending, hsv_blending or pegtop_blending returns lies in
\* [0,1] (and the call returns an array when the two shapes agree).
C20_BlendsStayInUnit ==
    (/\ pc = "done"
     /\ op \in ColourBlends
     /\ RgbaInUnit
     /\ IntensitiesInUnit)
        => /\ BlendShapesAgree => result.ok
           /\ result.ok =>
                \A r \in 1..NRows(result.val), c \in 1..NCols(result.val) :
                    \A k \in 1..3 : InUnit(result.val[r][c][k])

\* C20 witness: pegtop_blending of colours and intensities that take the
\* values 0 and 1 as well as values in between returns an array that reaches
\* 1 at the white pixel under intensity 1 and has values strictly inside
\* the interval.
C20_Witness ==
    /\ Done("pegtop_blending")
    /\ args.rgba = Rgb3
    /\ args.norm_intensities = Half
    /\ result.ok
    /\ result.val[2][2] = White
    /\ \E k \in 1..3 : Lt(Zero, result.val[2][1][k]) /\ Lt(result.val[2][1][k], One)

\* Lamp weights only: the weights of the call without the ambient weight.
NoLampWeightNegative ==
    \A i \in DOMAIN BuiltLists(op, args)[3] :
        NonNegative(BuiltLists(op, args)[3][i])

\* No lamp of the call lights pixel (r, c).
Unlit(r, c) ==
    \A i \in DOMAIN BuiltLists(op, args)[3] : LampIntensity(i, r, c) = Zero

\* The floor a / (a + sum of lamp weights) under every pixel, for a > 0.
AmbientFloor ==
    (IntensityCall /\ result.ok /\ NoLampWeightNegative
        /\ Positive(args.ambient_weight))
        => \A x \in Cells(result.val) :
                /\ Ge(x, Div(args.ambient_weight, WeightTotal(op, args)))
                /\ Positive(x)

\* C21: with ambient weight a > 0 and no negative lamp weight, every pixel
\* of the combined intensity is at least a / (a + sum of lamp weights) and
\* positive; with ambient weight 0 (and no negative lamp weight), a pixel
\* that no lamp lights has combined intensity 0.  (With ambient weight 0 and
\* lamp weights that are all 0, or no lamp, the pixel is NaN.)
C21_AmbientFloorAndDarkness ==
    /\ AmbientFloor
    /\ (IntensityCall /\ result.ok /\ NoLampWeightNegative
            /\ args.ambient_weight = Zero)
        => \A r \in 1..NRows(result.val), c \in 1..NCols(result.val) :
                Unlit(r, c) => result.val[r][c] = Zero

\* The part of C21 that holds: the floor for a > 0, and darkness of unlit
\* pixels for a = 0 when some lamp weight is positive.
C21_HoldsForPositiveSum ==
    /\ AmbientFloor
    /\ (IntensityCall /\ result.ok /\ NoLampWeightNegative
            /\ args.ambient_weight = Zero /\ Positive(WeightTotal(op, args)))
        => \A r \in 1..NRows(result.val), c \in 1..NCols(result.val) :
                Unlit(r, c) => result.val[r][c] = Zero

\* The steps of a hill_shade call with n lamps that returns, in order.
FullLog(n) ==
    << [step |-> "shape_check", lamp |-> 0],
       [step |-> "length_checks", lamp |-> 0] >>
    \o [i \in 1..n |-> [step |-> "lamps", lamp |-> i]]
    \o << [step |-> "combine", lamp |-> 0],
          [step |-> "color_data", lamp |-> 0],
          [step |-> "blend", lamp |-> 0] >>

IsPrefix(s, t) == Len(s) <= Len(t) /\ s = SubSeq(t, 1, Len(s))

StepsTaken == {frame.log[i].step : i \in DOMAIN frame.log}

\* C22: the steps of a hill_shade call are taken in the order shape check,
\* length checks, one relative intensity per lamp in list order, weighted
\* combination, colouring, blend, each at most once; a call that returns has
\* taken all of them and returns what the blend function returned for the
\* colours and the combined intensity; a call that raises in a check or in
\* a lamp's sanity assertion has neither coloured nor blended; nothing is
\* returned before the call is done, and the outcome is that of the call
\* taken as a whole.
C22_PipelineOrder ==
    /\ IsPrefix(frame.log, FullLog(Len(Azimuths)))
    /\ pc # "done" => result = NoResult
    /\ pc = "done" => result = HillShadeOf(args)
    /\ (pc = "done" /\ result.ok)
        => /\ frame.log = FullLog(Len(Azimuths))
           /\ result = blend(args.blend_function, frame.rgba,
                             frame.surface_intensity)
    /\ (pc = "done" /\ ~result.ok)
        => StepsTaken \cap {"color_data", "blend"} = {}

\* C22 witness: a call with two lamps that has returned a coloured relief
\* after seven steps.
C22_Witness ==
    /\ pc = "done"
    /\ result.ok
    /\ args.blend_function = "rgb_blending"
    /\ Len(Azimuths) = 2
    /\ Len(frame.log) = 7
    /\ frame.log[4] = [step |-> "lamps", lamp |-> 2]

IsAssertionError(res) ==
    /\ ~res.ok
    /\ res.err \in {"AssertionError: light vector should have length 1",
                    "AssertionError: cos(theta) should be >= -1",
                    "AssertionError: cos(theta) should be <= 1"}

\* C23: for a finite terrain and any azimuth and elevation the light vector
\* has length 1, the dot product of every unit normal with it lies in
\* [-1,1], and relative_surface_intensity raises none of its sanity-check
\* assertions: it returns whenever np.gradient accepts the terrain.
C23_SanityChecksPass ==
    (/\ Done("relative_surface_intensity")
     /\ \A x \in Cells(args.terrain) : IsFinite(x))
        => /\ VecNorm(polar_to_cart3d(args.azimuth, args.elevation)) = One
           /\ ~IsAssertionError(result)
           /\ GradientDefined(args.terrain)
                => /\ result.ok
                   /\ \A r \in 1..NRows(args.terrain),
                         c \in 1..NCols(args.terrain) :
                        LET d == Dot(surface_unit_normals(args.terrain)[r][c],
                                     polar_to_cart3d(args.azimuth,
                                                     args.elevation))
                        IN  Le(I(-1), d) /\ Le(d, One)

\* C23 witness: the light shines along the normal of the ramp, the dot
\* product is 1, the largest value the check lets through.
C23_Witness ==
    /\ Done("relative_surface_intensity")
    /\ args.terrain = Ramp
    /\ args.azimuth = "270"
    /\ args.elevation = "53.13"
    /\ result.ok
    /\ CosTheta(args.terrain, args.azimuth, args.elevation, 2, 1) = One
    /\ Uniform(result.val, One)

\* The factors the weights of a call are multiplied by.
ScaleFactors == {Q(1, 2), I(2), I(3)}

\* The default lamp weight of the function called.
DefaultWeight == IF op = "weighted_intensity" THEN I(DEF_LAMP_WEIGHT)
                 ELSE I(HS_DEF_LAMP_WEIGHT)

ScaledWeight(w, k) ==
    IF w.kind = "list" THEN List([i \in DOMAIN w.xs |-> Mul(k, w.xs[i])])
    ELSE Scalar(Mul(k, w.x))

\* The call with the ambient weight and every lamp weight multiplied by k.
Scaled(a, k) ==
    [a EXCEPT !.ambient_weight = Mul(k, a.ambient_weight),
              !.lamp_weight = ScaledWeight(Bind(a.lamp_weight, DefaultWeight), k)]

Without(s, i) == SubSeq(s, 1, i - 1) \o SubSeq(s, i + 1, Len(s))

\* The call with lamp i taken out of the three lamp lists.
WithoutLamp(a, l, i) ==
    [a EXCEPT !.azimuth = List(Without(l[1], i)),
              !.elevation = List(Without(l[2], i)),
              !.lamp_weight = List(Without(l[3], i))]

CallOf(f, a) ==
    IF f = "weighted_intensity" THEN WeightedIntensityOf(a) ELSE HillShadeOf(a)

WeightedCall == pc = "done" /\ op \in {"weighted_intensity", "hill_shade"}

C25_NonFiniteCellsReplaced ==
    (Done("replace_nans") /\ args.mask = None)
        => result = Ok(Sanitized(args.array, args.array_nan_value))

\* A call that returns a hillshade stretched to the full range.
NormalizedShadeCall ==
    /\ pc = "done"
    /\ \/ op \in {"hillshade", "hill_shade_intensity"}
       \/ op = "mpl_surface_intensity" /\ args.normalize

ShadedField == IF op = "hillshade" THEN args.data ELSE args.terrain

FullRange(a) ==
    /\ \A x \in Cells(a) : IsFinite(x) /\ InUnit(x)
    /\ ArrMin(a) = Zero
    /\ ArrMax(a) = One

\* C26: for every finite terrain that np.gradient accepts, flat ones
\* included, the normalized hillshade of hill_shade_intensity, hillshade and
\* mpl_surface_intensity(normalize=True) is a field of finite values in
\* [0,1] with minimum 0 and maximum 1.  (On a terrain whose raw intensity is
\* the same at every pixel the stretch divides 0 by 0 and every value is NaN.)
C26_NormalizedShadeFullRange ==
    (/\ NormalizedShadeCall
     /\ GradientDefined(ShadedField)
     /\ \A x \in Cells(ShadedField) : IsFinite(x))
        => result.ok /\ FullRange(result.val)

\* The part of C26 that holds: a normalized hillshade without NaN has the
\* full range, and on a finite terrain the only other outcome is the field
\* of NaN.
C26_FullRangeOrAllNaN ==
    (/\ NormalizedShadeCall
     /\ GradientDefined(ShadedField)
     /\ \A x \in Cells(ShadedField) : IsFinite(x))
        => /\ result.ok
           /\ FullRange(result.val) \/ Uniform(result.val, NaN)

\* C27: set_shade called with intensity=None shades the data with the
\* hillshade of its scale_terrain, azdeg and altdeg arguments.  (It calls
\* hillshade with the literals 10.0, 165.0 and 45.0.)
C27_SetShadeUsesItsArguments ==
    (Done("set_shade") /\ args.intensity = None)
        => result = set_shade_rgb(args.a,
                                  hillshade(args.a, args.scale_terrain,
                                            args.azdeg, args.altdeg),
                                  args.cmap)

====
